---- MODULE Spec2Model ----
(***************************************************************************)
(* The streaming counting engine of tc (src/src/count.rs, src/src/lib.rs). *)
(*                                                                         *)
(* A scan reads a byte source `src` through a BufReader of capacity `cap`, *)
(* one chunk per fill_buf, and keeps running totals.  The three scanners   *)
(* binary, utf8 and hyperscreamingcount are called directly (as the unit   *)
(* tests do) under Spec, and through the entry points count::file and      *)
(* Counter::count under SpecApi.                                           *)
(***************************************************************************)
EXTENDS Integers, Sequences, FiniteSets, TLC

(***************************************************************************)
(* Bounds of the model.                                                    *)
(***************************************************************************)
\* longest source of a direct scanner call
MaxLen == 4
\* largest BufReader capacity of a direct scanner call
MaxChunk == 3
\* longest source of a call through an entry point
MaxApiLen == 3
\* the BufReader capacity of a call through an entry point: BUFFER_SIZE
\* (count.rs:8, lib.rs:13), scaled down to the length of the sources
MaxApiChunk == 2

\* The bytes sources are made of: '\n', ' ', 'a', a 2-byte lead (0xC3), a
\* continuation byte (0x90) and a 4-byte lead (0xF0).
Alphabet == {10, 32, 97, 195, 144, 240}
\* Entry-point sources also hold 0xFF, which no UTF-8 sequence contains.
ApiAlphabet == {10, 32, 97, 195, 144, 255}

\* "hello world 12345\n67890", the scenario of the specification
HelloWorld ==
    <<104, 101, 108, 108, 111, 32, 119, 111, 114, 108, 100, 32,
      49, 50, 51, 52, 53, 10, 54, 55, 56, 57, 48>>
\* the two bytes 0xFF 0xFE
NotUtf8 == <<255, 254>>

Min(a, b) == IF a < b THEN a ELSE b

RECURSIVE SeqsUpTo(_, _)
SeqsUpTo(A, n) ==
    IF n = 0 THEN {<<>>}
    ELSE LET shorter == SeqsUpTo(A, n - 1)
         IN  shorter \cup {Append(s, a) : s \in {t \in shorter : Len(t) = n - 1}, a \in A}

Prefix(s, n) == SubSeq(s, 1, n)

(***************************************************************************)
(* Option<usize> and the result types.                                     *)
(***************************************************************************)
None == <<>>
Some(n) == <<n>>

(***************************************************************************)
(* u8::is_ascii_whitespace / char::is_ascii_whitespace: U+0009, U+000A,    *)
(* U+000C, U+000D, U+0020 (not U+000B).  Used at count.rs:26, 54, 170,     *)
(* 204.                                                                    *)
(***************************************************************************)
is_ascii_whitespace(b) == b \in {9, 10, 12, 13, 32}

(***************************************************************************)
(* std::str::from_utf8, as BufReadDecoder uses it (count.rs:45-47): the    *)
(* length of the longest valid prefix and, on error, the length of the     *)
(* invalid sequence (error_len = 0 stands for None: the input ends inside  *)
(* a sequence that is valid so far).                                       *)
(***************************************************************************)
IsCont(b) == b >= 128 /\ b <= 191

Utf8CharWidth(b) ==
    IF b < 128 THEN 1
    ELSE IF b >= 194 /\ b <= 223 THEN 2
    ELSE IF b >= 224 /\ b <= 239 THEN 3
    ELSE IF b >= 240 /\ b <= 244 THEN 4
    ELSE 0

\* the second byte of a 3- or 4-byte sequence has a lead-dependent range
SecondOk(first, b) ==
    CASE first = 224 -> b >= 160 /\ b <= 191
      [] first = 237 -> b >= 128 /\ b <= 159
      [] first = 240 -> b >= 144 /\ b <= 191
      [] first = 244 -> b >= 128 /\ b <= 143
      [] OTHER -> IsCont(b)

Utf8Valid(v) == [ok |-> TRUE, valid_up_to |-> v, error_len |-> 0]
Utf8Error(v, e) == [ok |-> FALSE, valid_up_to |-> v, error_len |-> e]

RECURSIVE run_utf8_validation(_, _)
run_utf8_validation(s, i) ==
    IF i > Len(s) THEN Utf8Valid(Len(s))
    ELSE LET first == s[i]
             w == Utf8CharWidth(first)
             n == Len(s)
         IN  IF w = 1 THEN run_utf8_validation(s, i + 1)
             ELSE IF w = 0 THEN Utf8Error(i - 1, 1)
             ELSE IF i + 1 > n THEN Utf8Error(i - 1, 0)
             ELSE IF ~SecondOk(first, s[i + 1]) THEN Utf8Error(i - 1, 1)
             ELSE IF w = 2 THEN run_utf8_validation(s, i + 2)
             ELSE IF i + 2 > n THEN Utf8Error(i - 1, 0)
             ELSE IF ~IsCont(s[i + 2]) THEN Utf8Error(i - 1, 2)
             ELSE IF w = 3 THEN run_utf8_validation(s, i + 3)
             ELSE IF i + 3 > n THEN Utf8Error(i - 1, 0)
             ELSE IF ~IsCont(s[i + 3]) THEN Utf8Error(i - 1, 3)
             ELSE run_utf8_validation(s, i + 4)

from_utf8(s) == run_utf8_validation(s, 1)

(***************************************************************************)
(* str::chars (count.rs:51, 199): the scalar values a valid UTF-8 string   *)
(* decodes to.                                                             *)
(***************************************************************************)
RECURSIVE CharsFrom(_, _)
CharsFrom(s, i) ==
    IF i > Len(s) THEN <<>>
    ELSE LET first == s[i]
             w == Utf8CharWidth(first)
             c == CASE w = 2 -> (first % 32) * 64 + (s[i + 1] % 64)
                    [] w = 3 -> (first % 16) * 4096 + (s[i + 1] % 64) * 64 + (s[i + 2] % 64)
                    [] w = 4 -> (first % 8) * 262144 + (s[i + 1] % 64) * 4096
                                + (s[i + 2] % 64) * 64 + (s[i + 3] % 64)
                    [] OTHER -> first
         IN  <<c>> \o CharsFrom(s, i + (IF w = 0 THEN 1 ELSE w))

str_chars(s) == CharsFrom(s, 1)

(***************************************************************************)
(* BufReader over the source S with capacity c.  `pos` and `filled` are    *)
(* source offsets: the buffer holds S[pos+1 .. filled]; fill_buf reads     *)
(* the next chunk only when the buffer is empty; consume(n) advances pos.  *)
(***************************************************************************)
fill_buf(S, c, p, f) == IF p >= f THEN Min(f + c, Len(S)) ELSE f

buffer_of(S, p, f) == SubSeq(S, p + 1, f)

(***************************************************************************)
(* The running totals of one scan.                                         *)
(***************************************************************************)
ZeroState == [bytes |-> 0, chars |-> 0, words |-> 0, lines |-> 0, in_word |-> FALSE]

(***************************************************************************)
(* count::binary (count.rs:11-39).                                         *)
(***************************************************************************)
\* the body of `for &b in buffer` (count.rs:24-32)
\* a word counted at every whitespace byte, in a word or not
BinaryByte_WordPerWhitespace(st, b) ==
    [st EXCEPT !.lines = @ + (IF b = 10 THEN 1 ELSE 0),
               !.words = IF is_ascii_whitespace(b) THEN @ + 1 ELSE @,
               !.in_word = ~is_ascii_whitespace(b)]

BinaryByte(st, b) ==
    [st EXCEPT !.lines = @ + (IF b = 10 THEN 1 ELSE 0),
               !.words = IF is_ascii_whitespace(b)
                         THEN @ + (IF st.in_word THEN 1 ELSE 0) ELSE @,
               !.in_word = ~is_ascii_whitespace(b)]

\* `for &b in buffer` (count.rs:24-32)
RECURSIVE BinaryBytes(_, _)
BinaryBytes(st, s) ==
    IF s = <<>> THEN st ELSE BinaryBytes(BinaryByte(st, Head(s)), Tail(s))

\* in_word declared inside the loop: every chunk starts outside a word
BinaryChunk_WordPerChunk(st, buffer) ==
    BinaryBytes([st EXCEPT !.bytes = @ + Len(buffer), !.in_word = FALSE], buffer)

\* one iteration of the loop with a non-empty buffer (count.rs:19-33)
BinaryChunk(st, buffer) ==
    BinaryBytes([st EXCEPT !.bytes = @ + Len(buffer)], buffer)

\* without the `if in_word` after the loop
BinaryFinish_NoTrailingWord(st) == <<st.bytes, st.words, st.lines>>

\* a trailing word counted whether or not the scan ended inside a word
BinaryFinish_AlwaysTrailingWord(st) == <<st.bytes, st.words + 1, st.lines>>

\* after the loop (count.rs:35-38)
BinaryFinish(st) ==
    <<st.bytes, st.words + (IF st.in_word THEN 1 ELSE 0), st.lines>>

RECURSIVE binary_loop(_, _, _, _)
binary_loop(S, c, p, st) ==
    LET f == fill_buf(S, c, p, p)
        buffer == buffer_of(S, p, f)
    IN  IF Len(buffer) = 0 THEN BinaryFinish(st)
        ELSE binary_loop(S, c, p + Len(buffer), BinaryChunk(st, buffer))

\* the whole call binary(BufReader::with_capacity(c, S))
binary(S, c) == binary_loop(S, c, 0, ZeroState)

(***************************************************************************)
(* count::hyperscreamingcount (count.rs:75-91).                            *)
(***************************************************************************)
\* bytecount::count(buffer, b'\n') (count.rs:87)
bytecount_count(buffer, needle) ==
    Cardinality({i \in 1..Len(buffer) : buffer[i] = needle})

\* a chunk counted as one line when it holds a newline
HyperChunk_LinePerChunk(st, buffer) ==
    [st EXCEPT !.bytes = @ + Len(buffer),
               !.lines = @ + (IF bytecount_count(buffer, 10) > 0 THEN 1 ELSE 0)]

\* one iteration of the loop with a non-empty buffer (count.rs:82-88)
HyperChunk(st, buffer) ==
    [st EXCEPT !.bytes = @ + Len(buffer),
               !.lines = @ + bytecount_count(buffer, 10)]

\* after the loop (count.rs:90)
HyperFinish(st) == <<st.bytes, st.lines>>

(***************************************************************************)
(* count::utf8 (count.rs:42-72).                                           *)
(***************************************************************************)
\* the body of `for c in str.chars()` (count.rs:52-59)
Utf8Char(st, c) ==
    [st EXCEPT !.chars = @ + 1,
               !.lines = @ + (IF c = 10 THEN 1 ELSE 0),
               !.words = IF is_ascii_whitespace(c)
                         THEN @ + (IF st.in_word THEN 1 ELSE 0) ELSE @,
               !.in_word = ~is_ascii_whitespace(c)]

\* `for c in str.chars()` (count.rs:51-60)
RECURSIVE Utf8Chars(_, _)
Utf8Chars(st, s) ==
    IF s = <<>> THEN st ELSE Utf8Chars(Utf8Char(st, Head(s)), Tail(s))

\* iterating str.bytes() instead of str.chars()
Utf8Str_PerByte(st, str) ==
    Utf8Chars([st EXCEPT !.bytes = @ + Len(str)], str)

\* the Ok(str) arm (count.rs:49-61)
Utf8Str(st, str) ==
    Utf8Chars([st EXCEPT !.bytes = @ + Len(str)], str_chars(str))

\* after the loop (count.rs:68-71)
\* the trailing word of the decoded text left uncounted
Utf8Finish_NoTrailingWord(st) == <<st.bytes, st.chars, st.words, st.lines>>

Utf8Finish(st) ==
    <<st.bytes, st.chars, st.words + (IF st.in_word THEN 1 ELSE 0), st.lines>>

\* the Err(_) arm (count.rs:62)
Utf8Failed == <<0, 0, 0, 0>>

(***************************************************************************)
(* count::binary_file (count.rs:144-183).                                  *)
(***************************************************************************)
\* the body of `for &b in buffer` (count.rs:166-178)
BinaryFileByte(st, b) ==
    LET st1 == IF b = 10 THEN [st EXCEPT !.lines = @ + 1] ELSE st
    IN  IF is_ascii_whitespace(b)
        THEN IF st1.in_word
             THEN [st1 EXCEPT !.words = @ + 1, !.in_word = FALSE]
             ELSE st1
        ELSE [st1 EXCEPT !.in_word = TRUE]

\* `for &b in buffer` (count.rs:166-178)
RECURSIVE BinaryFileBytes(_, _)
BinaryFileBytes(st, s) ==
    IF s = <<>> THEN st ELSE BinaryFileBytes(BinaryFileByte(st, Head(s)), Tail(s))

\* the length of the buffer added only when the bytes are looked at
BinaryFileChunk_BytesOnlyWhenScanned(st, buffer, ob) ==
    IF ~ob THEN BinaryFileBytes([st EXCEPT !.bytes = @ + Len(buffer)], buffer) ELSE st

\* one iteration of the loop with a non-empty buffer (count.rs:160-180)
BinaryFileChunk(st, buffer, ob) ==
    LET st1 == [st EXCEPT !.bytes = @ + Len(buffer)]
    IN  IF ~ob THEN BinaryFileBytes(st1, buffer) ELSE st1

\* after the loop (count.rs:182)
BinaryFileFinish(st) == <<st.bytes, 0, st.words, st.lines>>

(***************************************************************************)
(* count::utf8_file (count.rs:185-228).                                    *)
(***************************************************************************)
\* the body of `for c in str.chars()` (count.rs:200-211)
Utf8FileChar(st, c) ==
    LET st1 == [st EXCEPT !.chars = @ + 1]
        st2 == IF c = 10 THEN [st1 EXCEPT !.lines = @ + 1] ELSE st1
    IN  IF is_ascii_whitespace(c)
        THEN IF st2.in_word
             THEN [st2 EXCEPT !.words = @ + 1, !.in_word = FALSE]
             ELSE st2
        ELSE [st2 EXCEPT !.in_word = TRUE]

\* `for c in str.chars()` (count.rs:199-212)
RECURSIVE Utf8FileChars(_, _)
Utf8FileChars(st, s) ==
    IF s = <<>> THEN st ELSE Utf8FileChars(Utf8FileChar(st, Head(s)), Tail(s))

\* the Ok(str) arm (count.rs:197-213)
Utf8FileStr(st, str) ==
    Utf8FileChars([st EXCEPT !.bytes = @ + Len(str)], str_chars(str))

\* after the loop (count.rs:227)
Utf8FileFinish(st) == <<st.bytes, st.chars, st.words, st.lines>>

(***************************************************************************)
(* utf8::BufReadDecoder, driven by decoder.next_strict() at count.rs:47    *)
(* and count.rs:195.  `incomplete` is the carry of a sequence a chunk      *)
(* boundary split; `bytes_consumed` is what the next call consumes from    *)
(* the BufReader before it fills again.                                    *)
(***************************************************************************)
\* the carry dropped: only the new input is validated
try_complete_offsets_DropsCarry(inc, input) ==
    LET copied == Min(4 - Len(inc), Len(input))
        e == from_utf8(Prefix(input, copied))
    IN  IF e.ok \/ e.valid_up_to > 0
        THEN [consumed |-> IF e.ok THEN copied ELSE e.valid_up_to, kind |-> "ok",
              buffer |-> Prefix(input, IF e.ok THEN copied ELSE e.valid_up_to)]
        ELSE IF e.error_len > 0
        THEN [consumed |-> e.error_len, kind |-> "err",
              buffer |-> Prefix(input, e.error_len)]
        ELSE [consumed |-> copied, kind |-> "continue", buffer |-> inc \o Prefix(input, copied)]

\* Incomplete::try_complete_offsets: splice up to 4 - len(incomplete) input
\* bytes onto the carry and validate the splice
try_complete_offsets(inc, input) ==
    LET initial == Len(inc)
        copied == Min(4 - initial, Len(input))
        spliced == inc \o Prefix(input, copied)
        e == from_utf8(spliced)
    IN  IF e.ok
        THEN [consumed |-> copied, kind |-> "ok", buffer |-> spliced]
        ELSE IF e.valid_up_to > 0
        THEN [consumed |-> e.valid_up_to - initial, kind |-> "ok",
              buffer |-> Prefix(spliced, e.valid_up_to)]
        ELSE IF e.error_len > 0
        THEN [consumed |-> e.error_len - initial, kind |-> "err",
              buffer |-> Prefix(spliced, e.error_len)]
        ELSE [consumed |-> copied, kind |-> "continue", buffer |-> spliced]

\* One iteration of the loop of next_strict: consume what the previous
\* iteration marked, fill, and decode.  kind is "eof" (return None),
\* "continue" (the buffer ends inside a sequence: carry it and loop),
\* "ok" (Some(Ok(str))) or "err" (Some(Err(InvalidByteSequence))).
next_strict(S, c, p, f, inc, bc) ==
    LET p1 == p + bc
        f1 == fill_buf(S, c, p1, f)
        buf == buffer_of(S, p1, f1)
        base == [pos |-> p1, filled |-> f1, incomplete |-> inc,
                 bytes_consumed |-> 0, kind |-> "eof", str |-> <<>>]
    IN  IF inc = <<>>
        THEN IF buf = <<>> THEN base
             ELSE LET e == from_utf8(buf)
                  IN  IF e.ok
                      THEN [base EXCEPT !.kind = "ok", !.str = buf,
                                        !.bytes_consumed = Len(buf)]
                      ELSE IF e.valid_up_to > 0
                      THEN [base EXCEPT !.kind = "ok", !.str = Prefix(buf, e.valid_up_to),
                                        !.bytes_consumed = e.valid_up_to]
                      ELSE IF e.error_len > 0
                      THEN [base EXCEPT !.kind = "err", !.str = Prefix(buf, e.error_len),
                                        !.bytes_consumed = e.error_len]
                      ELSE [base EXCEPT !.kind = "continue", !.incomplete = buf,
                                        !.bytes_consumed = Len(buf)]
        ELSE IF buf = <<>>
             THEN [base EXCEPT !.kind = "err", !.str = inc, !.incomplete = <<>>]
             ELSE LET r == try_complete_offsets(inc, buf)
                  IN  IF r.kind = "continue"
                      THEN [base EXCEPT !.kind = "continue", !.incomplete = r.buffer,
                                        !.bytes_consumed = r.consumed]
                      ELSE [base EXCEPT !.kind = r.kind, !.str = r.buffer,
                                        !.incomplete = <<>>,
                                        !.bytes_consumed = r.consumed]

(***************************************************************************)
(* The entry points: count::file (count.rs:234-247) and Counter::count     *)
(* (lib.rs:74-106) with count_readable (lib.rs:135-164).                   *)
(***************************************************************************)
Flags == [bytes : BOOLEAN, chars : BOOLEAN, words : BOOLEAN, lines : BOOLEAN]

NoFlags == [bytes |-> FALSE, chars |-> FALSE, words |-> FALSE, lines |-> FALSE]

\* a metric that was not requested reported as zero
Opt_ZeroPlaceholder(flag, n) == IF flag THEN Some(n) ELSE Some(0)

\* `if flag { Some(n) } else { None }` (count.rs:242-245, lib.rs:140-143)
Opt(flag, n) == IF flag THEN Some(n) ELSE None

\* count::file decoding whatever the flags
file_path_of_AlwaysDecodes(cfg) == "utf8_file"

\* count::file never decoding
file_path_of_NeverDecodes(cfg) == "binary_file"

\* which scanner count::file runs (count.rs:235-239)
file_path_of(cfg) == IF cfg.chars THEN "utf8_file" ELSE "binary_file"

\* the only_bytes argument count::file passes to binary_file (count.rs:238)
file_only_bytes(cfg) == ~cfg.words /\ ~cfg.lines

\* Ok(Count { .. }) of count::file (count.rs:240-246)
file_ok(cfg, t) ==
    [tag |-> "Ok",
     val |-> [bytes |-> Opt(cfg.bytes, t[1]), chars |-> Opt(cfg.chars, t[2]),
              words |-> Opt(cfg.words, t[3]), lines |-> Opt(cfg.lines, t[4])]]

\* Err(Error::NotUtf8EncodedFile) (count.rs:216-218), passed on by `?`
file_err == [tag |-> "Err", val |-> "NotUtf8EncodedFile"]

\* the branch Counter<PathBuf>::count takes (lib.rs:76)
path_uses_metadata(cfg) == cfg.bytes /\ ~(cfg.chars \/ cfg.words \/ cfg.lines)

\* Counted of the metadata branch (lib.rs:77-83); metadata(path).len() is the
\* length of the file's content
metadata_counted(S) ==
    [tag |-> "Counted",
     val |-> [bytes |-> Some(Len(S)), chars |-> None, words |-> None, lines |-> None]]

\* the fast line scanner tried before the UTF-8 scanner
count_readable_path_LinesFirst(cfg) ==
    IF cfg.lines /\ ~cfg.words THEN "hyperscreamingcount"
    ELSE IF cfg.chars THEN "utf8"
    ELSE "binary"

\* which scanner count_readable runs (lib.rs:136, 145, 154)
count_readable_path(cfg) ==
    IF cfg.chars THEN "utf8"
    ELSE IF cfg.lines /\ ~cfg.words THEN "hyperscreamingcount"
    ELSE "binary"

\* Counted of the three arms of count_readable (lib.rs:139-144, 148-153,
\* 157-162), from the tuple the scanner returned
count_readable_counted(cfg, scanner, t) ==
    [tag |-> "Counted",
     val |-> CASE scanner = "utf8" ->
                    [bytes |-> Opt(cfg.bytes, t[1]), chars |-> Opt(cfg.chars, t[2]),
                     words |-> Opt(cfg.words, t[3]), lines |-> Opt(cfg.lines, t[4])]
               [] scanner = "hyperscreamingcount" ->
                    [bytes |-> Opt(cfg.bytes, t[1]), chars |-> None,
                     words |-> None, lines |-> Opt(cfg.lines, t[2])]
               [] OTHER ->
                    [bytes |-> Opt(cfg.bytes, t[1]), chars |-> None,
                     words |-> Opt(cfg.words, t[2]), lines |-> Opt(cfg.lines, t[3])]]

\* what the caller of a scanner makes of the tuple it returned: a direct call
\* keeps the tuple, count_readable builds a Counted
returned(ent, cfg, scanner, t) ==
    IF ent = "direct" THEN [tag |-> "tuple", val |-> t]
    ELSE count_readable_counted(cfg, scanner, t)

(***************************************************************************)
(* State.                                                                  *)
(***************************************************************************)
VARIABLES
    src,             \* the bytes of the source
    cap,             \* the capacity of the BufReader
    entry,           \* "direct", "file", "PathBuf", "File" or "Stdin"
    config,          \* the requested metrics: Config / the Counter's flags
    pc,              \* "call", "scan" or "done"
    path,            \* the scan path taken, "none" before the dispatch
    only_bytes,      \* the argument of binary_file
    exit,            \* the return taken: "none", "eof", "invalid", "metadata"
    pos, filled,     \* the BufReader
    incomplete, bytes_consumed,        \* the BufReadDecoder
    bytes, chars, words, lines, in_word,   \* the locals of the scanner
    result,          \* what the call returned
    paths,           \* the batch given to count::files
    outcomes,        \* what the calls of file made so far returned, in order
    table,           \* the rows pprint rendered, the header row first
    built            \* the builder methods called on the Counter so far

vars == <<src, cap, entry, config, pc, path, only_bytes, exit, pos, filled,
          incomplete, bytes_consumed, bytes, chars, words, lines, in_word, result,
          paths, outcomes, table, built>>

batch == <<paths, outcomes, table>>
call == <<src, cap, entry, config, batch, built>>
reader == <<pos, filled>>
decoder == <<incomplete, bytes_consumed>>
totals == <<bytes, chars, words, lines, in_word>>
scan == <<path, only_bytes, reader, decoder, totals>>

St == [bytes |-> bytes, chars |-> chars, words |-> words, lines |-> lines,
       in_word |-> in_word]

SetTotals(st) ==
    /\ bytes' = st.bytes
    /\ chars' = st.chars
    /\ words' = st.words
    /\ lines' = st.lines
    /\ in_word' = st.in_word

NoResult == [tag |-> "none", val |-> <<>>]

\* the locals every scanner starts from (count.rs:12-13, 43-45, 76, 150-153,
\* 188-193): zero totals, not in a word, an empty reader and decoder
Fresh ==
    /\ pos = 0 /\ filled = 0
    /\ incomplete = <<>> /\ bytes_consumed = 0
    /\ bytes = 0 /\ chars = 0 /\ words = 0 /\ lines = 0 /\ in_word = FALSE
    /\ exit = "none"
    /\ result = NoResult

\* no batch is being counted and no builder method has been called
NoBatch == paths = <<>> /\ outcomes = <<>> /\ table = <<>>

\* a unit-test style call of one scanner on BufReader::with_capacity(cap, src)
Init ==
    /\ src \in SeqsUpTo(Alphabet, MaxLen) \cup {HelloWorld}
    /\ cap \in 1..MaxChunk
    /\ entry = "direct"
    /\ config = NoFlags
    /\ pc = "scan"
    /\ path \in {"binary", "utf8", "hyperscreamingcount"}
    /\ only_bytes = FALSE
    /\ Fresh
    /\ NoBatch
    /\ built = {}

\* a call of count::file or of Counter::count on a source holding src
InitApi ==
    /\ src \in SeqsUpTo(ApiAlphabet, MaxApiLen) \cup {HelloWorld, NotUtf8}
    /\ cap = MaxApiChunk
    /\ entry \in {"file", "PathBuf", "File", "Stdin"}
    /\ config \in Flags
    /\ pc = "call"
    /\ path = "none"
    /\ only_bytes = FALSE
    /\ Fresh
    /\ NoBatch
    /\ built = {}

Scanning(scanner) == pc = "scan" /\ path = scanner

\* The sizes one read of the source may deliver into an empty buffer: a read
\* fills at most the capacity and may return fewer bytes (std::io::Read).
ReadSizes == 1..cap

\* reader.fill_buf() when the read delivers at most n bytes
NextBuffer(n) == buffer_of(src, pos, fill_buf(src, n, pos, filled))

\* consume marking twice the bytes the buffer held
Consumed_SkipsAhead(n, len) ==
    /\ filled' = fill_buf(src, n, pos, filled)
    /\ pos' = pos + 2 * len

\* reader.fill_buf() and reader.consume(len)
Consumed(n, len) ==
    /\ filled' = fill_buf(src, n, pos, filled)
    /\ pos' = pos + len

Return(how, st, res) ==
    /\ pc' = "done"
    /\ exit' = how
    /\ SetTotals(st)
    /\ result' = res

(***************************************************************************)
(* count::binary                                                           *)
(***************************************************************************)
BinaryLoop ==
    \E n \in ReadSizes :
       /\ Scanning("binary")
       /\ Len(NextBuffer(n)) # 0
       /\ SetTotals(BinaryChunk(St, NextBuffer(n)))
       /\ Consumed(n, Len(NextBuffer(n)))
       /\ UNCHANGED <<call, pc, path, only_bytes, exit, decoder, result>>

BinaryReturn ==
    \E n \in ReadSizes :
       /\ Scanning("binary")
       /\ Len(NextBuffer(n)) = 0
       /\ Return("eof", [St EXCEPT !.words = BinaryFinish(St)[2]],
                 returned(entry, config, "binary", BinaryFinish(St)))
       /\ Consumed(n, 0)
       /\ UNCHANGED <<call, path, only_bytes, decoder>>

(***************************************************************************)
(* count::hyperscreamingcount                                              *)
(***************************************************************************)
HyperLoop ==
    \E n \in ReadSizes :
       /\ Scanning("hyperscreamingcount")
       /\ Len(NextBuffer(n)) # 0
       /\ SetTotals(HyperChunk(St, NextBuffer(n)))
       /\ Consumed(n, Len(NextBuffer(n)))
       /\ UNCHANGED <<call, pc, path, only_bytes, exit, decoder, result>>

HyperReturn ==
    \E n \in ReadSizes :
       /\ Scanning("hyperscreamingcount")
       /\ Len(NextBuffer(n)) = 0
       /\ Return("eof", St, returned(entry, config, "hyperscreamingcount", HyperFinish(St)))
       /\ Consumed(n, 0)
       /\ UNCHANGED <<call, path, only_bytes, decoder>>

(***************************************************************************)
(* count::utf8                                                             *)
(***************************************************************************)
\* decoder.next_strict() when the read delivers at most n bytes
Decoded(n) == next_strict(src, n, pos, filled, incomplete, bytes_consumed)

SetDecoder(r) ==
    /\ pos' = r.pos
    /\ filled' = r.filled
    /\ incomplete' = r.incomplete
    /\ bytes_consumed' = r.bytes_consumed

\* next_strict loops: the buffer ended inside a sequence, which is carried
Utf8Carry ==
    \E n \in ReadSizes :
       /\ Scanning("utf8")
       /\ Decoded(n).kind = "continue"
       /\ SetDecoder(Decoded(n))
       /\ UNCHANGED <<call, pc, path, only_bytes, exit, totals, result>>

Utf8Ok ==
    \E n \in ReadSizes :
       /\ Scanning("utf8")
       /\ Decoded(n).kind = "ok"
       /\ SetDecoder(Decoded(n))
       /\ SetTotals(Utf8Str(St, Decoded(n).str))
       /\ UNCHANGED <<call, pc, path, only_bytes, exit, result>>

Utf8Err ==
    \E n \in ReadSizes :
       /\ Scanning("utf8")
       /\ Decoded(n).kind = "err"
       /\ SetDecoder(Decoded(n))
       /\ Return("invalid", St, returned(entry, config, "utf8", Utf8Failed))
       /\ UNCHANGED <<call, path, only_bytes>>

Utf8Return ==
    \E n \in ReadSizes :
       /\ Scanning("utf8")
       /\ Decoded(n).kind = "eof"
       /\ SetDecoder(Decoded(n))
       /\ Return("eof", [St EXCEPT !.words = Utf8Finish(St)[3]],
                 returned(entry, config, "utf8", Utf8Finish(St)))
       /\ UNCHANGED <<call, path, only_bytes>>

Next ==
    \/ BinaryLoop
    \/ BinaryReturn
    \/ HyperLoop
    \/ HyperReturn
    \/ Utf8Carry
    \/ Utf8Ok
    \/ Utf8Err
    \/ Utf8Return

Spec == Init /\ [][Next]_vars

(***************************************************************************)
(* count::binary_file                                                      *)
(***************************************************************************)
BinaryFileLoop ==
    \E n \in ReadSizes :
       /\ Scanning("binary_file")
       /\ Len(NextBuffer(n)) # 0
       /\ SetTotals(BinaryFileChunk(St, NextBuffer(n), only_bytes))
       /\ Consumed(n, Len(NextBuffer(n)))
       /\ UNCHANGED <<call, pc, path, only_bytes, exit, decoder, result>>

BinaryFileReturn ==
    \E n \in ReadSizes :
       /\ Scanning("binary_file")
       /\ Len(NextBuffer(n)) = 0
       /\ Return("eof", St, file_ok(config, BinaryFileFinish(St)))
       /\ Consumed(n, 0)
       /\ UNCHANGED <<call, path, only_bytes, decoder>>

(***************************************************************************)
(* count::utf8_file                                                        *)
(***************************************************************************)
Utf8FileCarry ==
    \E n \in ReadSizes :
       /\ Scanning("utf8_file")
       /\ Decoded(n).kind = "continue"
       /\ SetDecoder(Decoded(n))
       /\ UNCHANGED <<call, pc, path, only_bytes, exit, totals, result>>

Utf8FileOk ==
    \E n \in ReadSizes :
       /\ Scanning("utf8_file")
       /\ Decoded(n).kind = "ok"
       /\ SetDecoder(Decoded(n))
       /\ SetTotals(Utf8FileStr(St, Decoded(n).str))
       /\ UNCHANGED <<call, pc, path, only_bytes, exit, result>>

Utf8FileErr ==
    \E n \in ReadSizes :
       /\ Scanning("utf8_file")
       /\ Decoded(n).kind = "err"
       /\ SetDecoder(Decoded(n))
       /\ Return("invalid", St, file_err)
       /\ UNCHANGED <<call, path, only_bytes>>

Utf8FileReturn ==
    \E n \in ReadSizes :
       /\ Scanning("utf8_file")
       /\ Decoded(n).kind = "eof"
       /\ SetDecoder(Decoded(n))
       /\ Return("eof", St, file_ok(config, Utf8FileFinish(St)))
       /\ UNCHANGED <<call, path, only_bytes>>

(***************************************************************************)
(* The dispatch of the entry points.                                       *)
(***************************************************************************)
\* count::file picks utf8_file or binary_file (count.rs:235-239)
File ==
    /\ pc = "call"
    /\ entry = "file"
    /\ pc' = "scan"
    /\ path' = file_path_of(config)
    /\ only_bytes' = (IF config.chars THEN only_bytes ELSE file_only_bytes(config))
    /\ UNCHANGED <<call, exit, reader, decoder, totals, result>>

\* Counter<PathBuf>::count, the metadata branch (lib.rs:76-83)
CountPathBufMetadata ==
    /\ pc = "call"
    /\ entry = "PathBuf"
    /\ path_uses_metadata(config)
    /\ pc' = "done"
    /\ path' = "metadata"
    /\ exit' = "metadata"
    /\ result' = metadata_counted(src)
    /\ UNCHANGED <<call, only_bytes, reader, decoder, totals>>

\* Counter<PathBuf>::count, the branch that opens the file (lib.rs:84-92)
CountPathBuf ==
    /\ pc = "call"
    /\ entry = "PathBuf"
    /\ ~path_uses_metadata(config)
    /\ pc' = "scan"
    /\ path' = count_readable_path(config)
    /\ UNCHANGED <<call, only_bytes, exit, reader, decoder, totals, result>>

\* Counter<File>::count (lib.rs:96-100)
CountFile ==
    /\ pc = "call"
    /\ entry = "File"
    /\ pc' = "scan"
    /\ path' = count_readable_path(config)
    /\ UNCHANGED <<call, only_bytes, exit, reader, decoder, totals, result>>

\* Counter<Stdin>::count (lib.rs:102-106)
CountStdin ==
    /\ pc = "call"
    /\ entry = "Stdin"
    /\ pc' = "scan"
    /\ path' = count_readable_path(config)
    /\ UNCHANGED <<call, only_bytes, exit, reader, decoder, totals, result>>

NextApi ==
    \/ File
    \/ CountPathBufMetadata
    \/ CountPathBuf
    \/ CountFile
    \/ CountStdin
    \/ BinaryFileLoop
    \/ BinaryFileReturn
    \/ Utf8FileCarry
    \/ Utf8FileOk
    \/ Utf8FileErr
    \/ Utf8FileReturn
    \/ BinaryLoop
    \/ BinaryReturn
    \/ HyperLoop
    \/ HyperReturn
    \/ Utf8Carry
    \/ Utf8Ok
    \/ Utf8Err
    \/ Utf8Return

SpecApi == InitApi /\ [][NextApi]_vars

(***************************************************************************)
(* The three fill/consume loops on their own: binary and                   *)
(* hyperscreamingcount called on a reader, binary_file as count::file      *)
(* calls it.  The call runs on one thread that keeps executing until it    *)
(* returns: a step that stays enabled is eventually taken.                 *)
(***************************************************************************)
MaxLoopLen == 3

LoopAlphabet == {10, 32, 97}

InitLoops ==
    /\ src \in SeqsUpTo(LoopAlphabet, MaxLoopLen) \cup {HelloWorld}
    /\ cap = MaxApiChunk
    /\ \/ /\ entry = "direct"
          /\ config = NoFlags
          /\ path \in {"binary", "hyperscreamingcount"}
          /\ only_bytes = FALSE
       \/ /\ entry = "file"
          /\ config \in {cfg \in Flags : file_path_of(cfg) = "binary_file"}
          /\ path = "binary_file"
          /\ only_bytes = file_only_bytes(config)
    /\ pc = "scan"
    /\ Fresh
    /\ NoBatch
    /\ built = {}

NextLoops ==
    \/ BinaryLoop
    \/ BinaryReturn
    \/ HyperLoop
    \/ HyperReturn
    \/ BinaryFileLoop
    \/ BinaryFileReturn

SpecLoops == InitLoops /\ [][NextLoops]_vars /\ WF_vars(NextLoops)

(***************************************************************************)
(* The builder of a Counter (lib.rs:27-72, 108-133): countable() and the   *)
(* methods bytes(), chars(), words(), lines(), each taking the Counter and *)
(* returning a Counter.                                                    *)
(***************************************************************************)
\* Counter { data: self, bytes: false, chars: false, words: false, lines: false }
countable(data) ==
    [data |-> data, bytes |-> FALSE, chars |-> FALSE, words |-> FALSE,
     lines |-> FALSE]

\* Counter { bytes: true, ..self }
Counter_bytes(self) == [self EXCEPT !.bytes = TRUE]

\* chars() also turning the words flag on
Counter_chars_SetsWords(self) == [self EXCEPT !.chars = TRUE, !.words = TRUE]

\* Counter { chars: true, ..self }
Counter_chars(self) == [self EXCEPT !.chars = TRUE]

\* Counter { words: true, ..self }
Counter_words(self) == [self EXCEPT !.words = TRUE]

\* Counter { lines: true, ..self }
Counter_lines(self) == [self EXCEPT !.lines = TRUE]

\* the flags of a Counter
FlagsOf(counter) ==
    [bytes |-> counter.bytes, chars |-> counter.chars, words |-> counter.words,
     lines |-> counter.lines]

\* the Counter the state holds: its data is the source, its flags are config
Self ==
    [data |-> src, bytes |-> config.bytes, chars |-> config.chars,
     words |-> config.words, lines |-> config.lines]

\* the builder method `name` returned `counter`
Built(name, counter) ==
    /\ src' = counter.data
    /\ config' = FlagsOf(counter)
    /\ built' = built \cup {name}
    /\ UNCHANGED <<cap, entry, batch, pc, scan, exit, result>>

InitCounter ==
    /\ \E data \in SeqsUpTo(ApiAlphabet, MaxApiLen) :
          /\ src = countable(data).data
          /\ config = FlagsOf(countable(data))
    /\ cap = MaxApiChunk
    /\ entry \in {"PathBuf", "File", "Stdin"}
    /\ pc = "build"
    /\ path = "none"
    /\ only_bytes = FALSE
    /\ Fresh
    /\ NoBatch
    /\ built = {}

CounterBytes ==
    /\ pc = "build"
    /\ Built("bytes", Counter_bytes(Self))

CounterChars ==
    /\ pc = "build"
    /\ Built("chars", Counter_chars(Self))

CounterWords ==
    /\ pc = "build"
    /\ Built("words", Counter_words(Self))

CounterLines ==
    /\ pc = "build"
    /\ Built("lines", Counter_lines(Self))

NextCounter ==
    \/ CounterBytes
    \/ CounterChars
    \/ CounterWords
    \/ CounterLines

SpecCounter == InitCounter /\ [][NextCounter]_vars

(***************************************************************************)
(* The same calls on a source whose read may fail: any fill_buf may        *)
(* return Err instead of a buffer.                                         *)
(***************************************************************************)
\* `Err(_) => return (0, 0, 0)` (count.rs:17)
BinaryFailed == <<0, 0, 0>>

\* `Err(_) => return (0, 0)` (count.rs:80)
HyperFailed == <<0, 0>>

\* Err(Error::Io(e)) (count.rs:157, 219), passed on by `?`
file_io_err == [tag |-> "Err", val |-> "Io"]

BinaryIoErr ==
    /\ Scanning("binary")
    /\ Return("io", St, returned(entry, config, "binary", BinaryFailed))
    /\ UNCHANGED <<call, path, only_bytes, reader, decoder>>

HyperIoErr ==
    /\ Scanning("hyperscreamingcount")
    /\ Return("io", St, returned(entry, config, "hyperscreamingcount", HyperFailed))
    /\ UNCHANGED <<call, path, only_bytes, reader, decoder>>

\* next_strict consumes what it had marked, then the fill fails: it returns
\* Some(Err(BufReadDecoderError::Io(_))), which takes the Err(_) arm (count.rs:62)
Utf8IoErr ==
    /\ Scanning("utf8")
    /\ pos' = pos + bytes_consumed
    /\ bytes_consumed' = 0
    /\ Return("io", St, returned(entry, config, "utf8", Utf8Failed))
    /\ UNCHANGED <<call, path, only_bytes, filled, incomplete>>

BinaryFileIoErr ==
    /\ Scanning("binary_file")
    /\ Return("io", St, file_io_err)
    /\ UNCHANGED <<call, path, only_bytes, reader, decoder>>

Utf8FileIoErr ==
    /\ Scanning("utf8_file")
    /\ pos' = pos + bytes_consumed
    /\ bytes_consumed' = 0
    /\ Return("io", St, file_io_err)
    /\ UNCHANGED <<call, path, only_bytes, filled, incomplete>>

InitIo == Init \/ InitApi

NextIo ==
    \/ NextApi
    \/ BinaryIoErr
    \/ HyperIoErr
    \/ Utf8IoErr
    \/ BinaryFileIoErr
    \/ Utf8FileIoErr

SpecIo == InitIo /\ [][NextIo]_vars

(***************************************************************************)
(* Whole calls of the file scanners on a file holding S whose reads        *)
(* deliver c bytes at a time.                                              *)
(***************************************************************************)
RECURSIVE binary_file_loop(_, _, _, _, _)
binary_file_loop(S, c, p, st, ob) ==
    LET f == fill_buf(S, c, p, p)
        buffer == buffer_of(S, p, f)
    IN  IF Len(buffer) = 0 THEN BinaryFileFinish(st)
        ELSE binary_file_loop(S, c, p + Len(buffer), BinaryFileChunk(st, buffer, ob), ob)

\* binary_file(path, only_bytes) once the file is open (count.rs:149-182)
binary_file(S, c, ob) ==
    [tag |-> "Ok", val |-> binary_file_loop(S, c, 0, ZeroState, ob)]

RECURSIVE utf8_file_loop(_, _, _, _, _, _, _)
utf8_file_loop(S, c, p, f, inc, bc, st) ==
    LET r == next_strict(S, c, p, f, inc, bc)
    IN  CASE r.kind = "eof" -> [tag |-> "Ok", val |-> Utf8FileFinish(st)]
          [] r.kind = "err" -> file_err
          [] r.kind = "continue" ->
                utf8_file_loop(S, c, r.pos, r.filled, r.incomplete,
                               r.bytes_consumed, st)
          [] r.kind = "ok" ->
                utf8_file_loop(S, c, r.pos, r.filled, r.incomplete,
                               r.bytes_consumed, Utf8FileStr(st, r.str))

\* utf8_file(path) once the file is open (count.rs:187-227)
utf8_file(S, c) == utf8_file_loop(S, c, 0, 0, <<>>, 0, ZeroState)

\* file(path, config) on an open file: `?` passes an Err on, an Ok tuple
\* becomes a Count (count.rs:234-247)
file(S, cfg, c) ==
    LET t == IF file_path_of(cfg) = "utf8_file"
             THEN utf8_file(S, c)
             ELSE binary_file(S, c, file_only_bytes(cfg))
    IN  IF t.tag = "Ok" THEN file_ok(cfg, t.val) ELSE t

\* Count { context: Context::File { path }, .. } (count.rs:240-241)
WithContext(p, r) ==
    IF r.tag = "Ok" THEN [tag |-> "Ok", context |-> p, val |-> r.val] ELSE r

(***************************************************************************)
(* Config::to_vec, Count::to_counts_vec, Count::groupname.                 *)
(***************************************************************************)
\* `if self.flag { vec.push(name) }` / `if let Some(n) = self.field { vec.push(n) }`
Push(vec, cond, x) == IF cond THEN Append(vec, x) ELSE vec

\* Config::to_vec (config.rs:10-25)
to_vec(cfg) ==
    Push(Push(Push(Push(<<>>, cfg.bytes, "bytes"), cfg.chars, "chars"),
              cfg.words, "words"), cfg.lines, "lines")

\* the value inside Some(n)
Unwrap(o) == IF o = None THEN 0 ELSE o[1]

\* the chars column moved to the end of the row
to_counts_vec_CharsLast(count) ==
    Push(Push(Push(Push(<<>>, count.bytes # None, Unwrap(count.bytes)),
                   count.words # None, Unwrap(count.words)),
              count.lines # None, Unwrap(count.lines)),
         count.chars # None, Unwrap(count.chars))

\* Count::to_counts_vec (count.rs:108-123)
to_counts_vec(count) ==
    Push(Push(Push(Push(<<>>, count.bytes # None, Unwrap(count.bytes)),
                   count.chars # None, Unwrap(count.chars)),
              count.words # None, Unwrap(count.words)),
         count.lines # None, Unwrap(count.lines))

\* Count::groupname (count.rs:131-135)
groupname(r) == r.context

\* the rows pprint adds for the Ok results, in order (main.rs:86-102)
RECURSIVE Rows(_)
Rows(results) ==
    IF results = <<>> THEN <<>>
    ELSE (IF Head(results).tag = "Ok"
          THEN << <<groupname(Head(results))>> \o to_counts_vec(Head(results).val) >>
          ELSE <<>>) \o Rows(Tail(results))

\* pprint: the header row, then the rows (main.rs:73-105)
pprint(results, cfg) == << <<"">> \o to_vec(cfg) >> \o Rows(results)

(***************************************************************************)
(* count::files on a batch of paths, then pprint, as run() calls them      *)
(* (main.rs:114-115).  The file system is fixed: every path of FileNames   *)
(* but "missing.txt" names a file, with the content Content gives it.      *)
(***************************************************************************)
MaxBatch == 3

FileNames == {"a.txt", "not_utf8.txt", "empty.txt", "missing.txt"}

Exists(p) == p # "missing.txt"

Content(p) ==
    CASE p = "a.txt" -> <<97, 32, 195, 144, 10>>
      [] p = "not_utf8.txt" -> <<97, 10, 255, 97>>
      [] p = "empty.txt" -> <<>>

InitFiles ==
    /\ paths \in SeqsUpTo(FileNames, MaxBatch)
    /\ outcomes = <<>>
    /\ table = <<>>
    /\ built = {}
    /\ src = <<>>
    /\ cap = MaxApiChunk
    /\ entry = "files"
    /\ config \in Flags
    /\ pc = "map"
    /\ path = "none"
    /\ only_bytes = FALSE
    /\ Fresh

\* the path the map closure is called on next
NextPath == paths[Len(outcomes) + 1]

\* one call of the closure |path| file(path, config) on a file that opens
FileCall ==
    \E n \in ReadSizes :
       /\ pc = "map"
       /\ Len(outcomes) < Len(paths)
       /\ Exists(NextPath)
       /\ outcomes' = Append(outcomes,
                             WithContext(NextPath, file(Content(NextPath), config, n)))
       /\ UNCHANGED <<src, cap, entry, config, paths, table, built, pc, exit,
                      scan, result>>

\* File::open(path).unwrap() on a path that does not open: the thread
\* panics inside the closure (count.rs:148, 186)
FileOpenPanic ==
    /\ pc = "map"
    /\ Len(outcomes) < Len(paths)
    /\ ~Exists(NextPath)
    /\ pc' = "panicked"
    /\ exit' = "panic"
    /\ UNCHANGED <<call, scan, result>>

\* collect(): the iterator is exhausted (count.rs:231)
FilesReturn ==
    /\ pc = "map"
    /\ Len(outcomes) = Len(paths)
    /\ pc' = "returned"
    /\ exit' = "eof"
    /\ result' = [tag |-> "Vec", val |-> outcomes]
    /\ UNCHANGED <<call, scan>>

\* pprint(results, &config) (main.rs:115)
Pprint ==
    /\ pc = "returned"
    /\ pc' = "done"
    /\ table' = pprint(result.val, config)
    /\ UNCHANGED <<src, cap, entry, config, paths, outcomes, built, exit,
                   scan, result>>

NextFiles ==
    \/ FileCall
    \/ FileOpenPanic
    \/ FilesReturn
    \/ Pprint

SpecFiles == InitFiles /\ [][NextFiles]_vars

(***************************************************************************)
(* What the counts are counts of, stated on the whole source.              *)
(***************************************************************************)
\* the maximal runs of non-whitespace bytes: one per byte that starts a run
WordRuns(S) ==
    Cardinality({i \in 1..Len(S) :
                    /\ S[i] \notin {9, 10, 12, 13, 32}
                    /\ (i = 1 \/ S[i - 1] \in {9, 10, 12, 13, 32})})

Newlines(S) == Cardinality({i \in 1..Len(S) : S[i] = 10})

\* the scalar values whose UTF-8 encoding the alphabets can spell:
\* '\n', ' ', 'a', U+00D0 (C3 90) and U+10410 (F0 90 90 90)
Scalars == {10, 32, 97, 208, 66576} \cup {HelloWorld[i] : i \in 1..Len(HelloWorld)}

\* the UTF-8 encoding of a scalar value
Encode(cp) ==
    IF cp < 128 THEN <<cp>>
    ELSE IF cp < 2048 THEN <<192 + (cp \div 64), 128 + (cp % 64)>>
    ELSE IF cp < 65536
    THEN <<224 + (cp \div 4096), 128 + ((cp \div 64) % 64), 128 + (cp % 64)>>
    ELSE <<240 + (cp \div 262144), 128 + ((cp \div 4096) % 64),
           128 + ((cp \div 64) % 64), 128 + (cp % 64)>>

\* S from position i on is a concatenation of encodings of scalar values
RECURSIVE EncodedFrom(_, _)
EncodedFrom(S, i) ==
    \/ i > Len(S)
    \/ \E cp \in Scalars :
          LET e == Encode(cp)
          IN  /\ i + Len(e) - 1 <= Len(S)
              /\ SubSeq(S, i, i + Len(e) - 1) = e
              /\ EncodedFrom(S, i + Len(e))

IsUtf8(S) == EncodedFrom(S, 1)

\* the number of scalar values a valid S encodes: its non-continuation bytes
ScalarCount(S) == Cardinality({i \in 1..Len(S) : S[i] \notin 128..191})

\* S is valid, or becomes valid when the sequence it ends in is completed
IsUtf8Prefix(S) ==
    \E t \in {<<>>, <<144>>, <<144, 144>>, <<144, 144, 144>>} : IsUtf8(S \o t)

Done(scanner) == pc = "done" /\ path = scanner

(***************************************************************************)
(* C1: for every source and every capacity, binary returns bytes = the     *)
(* length of the source, and the (bytes, words, lines) it returns is what  *)
(* it returns under every other capacity.                                  *)
(***************************************************************************)
C1_BinaryChunkIndependent ==
    Done("binary") /\ entry = "direct" =>
        /\ result.val[1] = Len(src)
        /\ \A c \in 1..MaxChunk : result.val = binary(src, c)

C1_Witness ==
    /\ Done("binary") /\ entry = "direct"
    /\ cap = 1
    /\ src = <<97, 97, 32, 97>>
    /\ result.val = <<4, 2, 0>>

(***************************************************************************)
(* C2: binary returns words = the number of maximal runs of non-whitespace *)
(* bytes of the source, whatever the capacity: a run split by a chunk      *)
(* boundary or left open at end-of-stream counts once, and a source with   *)
(* no such byte gives 0.                                                   *)
(***************************************************************************)
C2_BinaryWords ==
    Done("binary") /\ entry = "direct" =>
        /\ result.val[2] = WordRuns(src)
        /\ ((\A i \in 1..Len(src) : src[i] \in {10, 32}) => result.val[2] = 0)

C2_Witness ==
    /\ Done("binary") /\ entry = "direct"
    /\ cap = 1
    /\ src = <<97, 97, 10, 97>>
    /\ result.val[2] = 2

(***************************************************************************)
(* C4: on a valid UTF-8 source, under every capacity, utf8 never takes the *)
(* error return, returns bytes = the length of the source and chars = the  *)
(* number of scalar values, and between decoder calls in_word says whether *)
(* the last scalar decoded so far is a word character, also when the bytes *)
(* read since then completed no scalar.                                    *)
(***************************************************************************)
C4_Utf8SplitScalars ==
    path = "utf8" /\ entry = "direct" /\ IsUtf8(src) =>
        /\ exit # "invalid"
        /\ pc = "done" => /\ result.val[1] = Len(src)
                          /\ result.val[2] = ScalarCount(src)
        /\ pc = "scan" => in_word = (bytes > 0 /\ src[bytes] \notin {9, 10, 12, 13, 32})

C4_Witness ==
    /\ Done("utf8") /\ entry = "direct"
    /\ cap = 3
    /\ src = <<240, 144, 144, 144>>
    /\ result.val = <<4, 1, 1, 0>>

(***************************************************************************)
(* C9: for every source and capacity, hyperscreamingcount returns the      *)
(* bytes and the lines binary returns on the same source and capacity:     *)
(* the length of the source and its number of 0x0A bytes.                  *)
(***************************************************************************)
C9_HyperMatchesBinary ==
    Done("hyperscreamingcount") /\ entry = "direct" =>
        /\ result.val = <<binary(src, cap)[1], binary(src, cap)[3]>>
        /\ result.val = <<Len(src), Newlines(src)>>

C9_Witness ==
    /\ Done("hyperscreamingcount") /\ entry = "direct"
    /\ cap = 2
    /\ src = <<10, 10, 97, 10>>
    /\ result.val = <<4, 3>>

C5_FileInvalidIsErr ==
    pc = "done" /\ entry = "file" /\ config.chars /\ ~IsUtf8Prefix(src) =>
        result = [tag |-> "Err", val |-> "NotUtf8EncodedFile"]

C5_Witness ==
    /\ pc = "done" /\ entry = "file" /\ config.chars
    /\ src = <<97, 32, 255>>
    /\ bytes = 2 /\ words = 1
    /\ result = [tag |-> "Err", val |-> "NotUtf8EncodedFile"]

(***************************************************************************)
(* C6: with chars requested, Counter::count on a source that is not valid  *)
(* UTF-8 reports a failure: what it returns differs from what a successful *)
(* scan of the empty source returns.                                       *)
(***************************************************************************)
C6_CounterInvalidIsFailure ==
    pc = "done" /\ entry \in {"PathBuf", "File", "Stdin"} /\ config.chars
                /\ ~IsUtf8(src) =>
        result # [tag |-> "Counted",
                  val |-> [bytes |-> IF config.bytes THEN Some(0) ELSE None,
                           chars |-> Some(0),
                           words |-> IF config.words THEN Some(0) ELSE None,
                           lines |-> IF config.lines THEN Some(0) ELSE None]]

(***************************************************************************)
(* C7: on the utf8_file path, a source that ends inside a multi-byte       *)
(* sequence fails with NotUtf8EncodedFile, and a valid source succeeds     *)
(* under every capacity: a sequence split by the end of a chunk that is    *)
(* not the last one is no error.                                           *)
(***************************************************************************)
C7_TruncatedIsErr ==
    Done("utf8_file") =>
        /\ (IsUtf8Prefix(src) /\ ~IsUtf8(src)
              => result = [tag |-> "Err", val |-> "NotUtf8EncodedFile"])
        /\ (IsUtf8(src) => result.tag = "Ok")

C7_Witness ==
    /\ Done("utf8_file")
    /\ src = <<195, 144, 195>>
    /\ chars = 1
    /\ incomplete = <<>>
    /\ result = [tag |-> "Err", val |-> "NotUtf8EncodedFile"]

(***************************************************************************)
(* C8: with chars not requested no scan takes an invalid-encoding return,  *)
(* whatever the bytes: count::file succeeds, and with bytes requested it   *)
(* returns bytes = the length of the content.                              *)
(***************************************************************************)
C8_NoDecodeNoError ==
    pc = "done" /\ ~config.chars /\ entry # "direct" =>
        /\ exit # "invalid"
        /\ entry = "file" => /\ result.tag = "Ok"
                             /\ config.bytes => result.val.bytes = Some(Len(src))

C8_Witness ==
    /\ pc = "done" /\ entry = "file"
    /\ src = NotUtf8
    /\ config = [bytes |-> TRUE, chars |-> FALSE, words |-> FALSE, lines |-> FALSE]
    /\ result = [tag |-> "Ok",
                 val |-> [bytes |-> Some(2), chars |-> None, words |-> None, lines |-> None]]

(***************************************************************************)
(* C10: Counter::count takes exactly the scan path of the first matching   *)
(* rule: a PathBuf source with only bytes set -> metadata; chars set ->    *)
(* utf8; lines set and words not set -> hyperscreamingcount; otherwise ->  *)
(* binary.  A Stdin source never takes the metadata path.                  *)
(***************************************************************************)
C10_Selected(kind, cfg) ==
    CASE kind = "PathBuf" /\ cfg.bytes /\ ~cfg.chars /\ ~cfg.words /\ ~cfg.lines -> "metadata"
      [] cfg.chars -> "utf8"
      [] ~cfg.chars /\ cfg.lines /\ ~cfg.words -> "hyperscreamingcount"
      [] OTHER -> "binary"

C10_StrategyTable ==
    pc # "call" /\ entry \in {"PathBuf", "File", "Stdin"} =>
        /\ path = C10_Selected(entry, config)
        /\ entry = "Stdin" => path # "metadata" /\ exit # "metadata"

C10_Witness ==
    /\ pc = "done" /\ entry = "PathBuf"
    /\ config = [bytes |-> TRUE, chars |-> FALSE, words |-> FALSE, lines |-> FALSE]
    /\ path = "metadata"
    /\ pos = 0 /\ filled = 0
    /\ result.val.bytes = Some(Len(src)) /\ Len(src) = 3

(***************************************************************************)
(* C11: in every successful result of count::file and of Counter::count,   *)
(* on every scan path, each of bytes, chars, words, lines is Some exactly  *)
(* when its flag was set and None otherwise, and chars is None on every    *)
(* path that does not decode.                                              *)
(***************************************************************************)
C11_SomeIffRequested ==
    pc = "done" /\ result.tag \in {"Ok", "Counted"} =>
        /\ \A f \in {"bytes", "chars", "words", "lines"} :
              /\ result.val[f] \in {None} \cup {Some(k) : k \in 0..Len(src)}
              /\ (result.val[f] # None) <=> config[f]
        /\ path \notin {"utf8", "utf8_file"} => result.val.chars = None

C11_Witness ==
    /\ pc = "done" /\ entry = "Stdin"
    /\ path = "hyperscreamingcount"
    /\ src = <<10, 97, 10>>
    /\ config = [bytes |-> FALSE, chars |-> FALSE, words |-> FALSE, lines |-> TRUE]
    /\ result = [tag |-> "Counted",
                 val |-> [bytes |-> None, chars |-> None, words |-> None,
                          lines |-> Some(2)]]

(***************************************************************************)
(* C15: for every source made only of ASCII bytes and every chunk size,    *)
(* count::utf8 returns the bytes, words and lines that count::binary       *)
(* returns, and its chars equals its bytes.                                *)
(***************************************************************************)
IsAscii(S) == \A i \in 1..Len(S) : S[i] < 128

C15_AsciiParity ==
    Done("utf8") /\ entry = "direct" /\ IsAscii(src) =>
        \A c \in 1..MaxChunk :
            result.val = <<binary(src, c)[1], binary(src, c)[1],
                           binary(src, c)[2], binary(src, c)[3]>>

C15_Witness ==
    /\ Done("utf8") /\ entry = "direct"
    /\ src = HelloWorld /\ IsAscii(src)
    /\ result.val = <<23, 23, 4, 1>>
    /\ binary(src, cap) = <<23, 4, 1>>

(***************************************************************************)
(* C16: scanning an empty source succeeds under each of the 16 flag        *)
(* combinations and on every scan path, every requested metric is          *)
(* reported as 0, no error is produced and no trailing word is counted.    *)
(***************************************************************************)
C16_EmptySourceZero ==
    pc = "done" /\ src = <<>> =>
        /\ exit \in {"eof", "metadata"}
        /\ result.tag \in {"Ok", "Counted"}
        /\ \A f \in {"bytes", "chars", "words", "lines"} :
              config[f] => result.val[f] = Some(0)

C16_Witness ==
    /\ pc = "done" /\ src = <<>>
    /\ entry = "file" /\ path = "utf8_file"
    /\ config = [bytes |-> TRUE, chars |-> TRUE, words |-> TRUE, lines |-> TRUE]
    /\ result = [tag |-> "Ok",
                 val |-> [bytes |-> Some(0), chars |-> Some(0),
                          words |-> Some(0), lines |-> Some(0)]]

(***************************************************************************)
(* C12: for every batch of N paths count::files returns exactly N          *)
(* outcomes, the i-th being the outcome of scanning the i-th path alone    *)
(* (an Ok Count carrying that path as its context), whatever the other     *)
(* sources of the batch are.                                               *)
(***************************************************************************)
ScannedAlone(p, cfg, c) == WithContext(p, file(Content(p), cfg, c))

C12_BatchOutcomes ==
    /\ pc # "panicked"
    /\ pc \in {"returned", "done"} =>
          /\ result.tag = "Vec"
          /\ Len(result.val) = Len(paths)
          /\ \A i \in 1..Len(paths) : \A c \in 1..MaxApiChunk :
                result.val[i] = ScannedAlone(paths[i], config, c)

(***************************************************************************)
(* C13: a path of the batch that cannot be opened yields Err(Error::Io)    *)
(* for that source only; count::files still returns an outcome for every   *)
(* source and the batch is not aborted.                                    *)
(***************************************************************************)
C13_MissingIsIoErr ==
    (\E i \in 1..Len(paths) : ~Exists(paths[i])) =>
        /\ exit # "panic"
        /\ pc \in {"returned", "done"} =>
              /\ Len(result.val) = Len(paths)
              /\ \A i \in 1..Len(paths) :
                    ~Exists(paths[i]) => result.val[i] = [tag |-> "Err", val |-> "Io"]

(***************************************************************************)
(* C17: for every Config and every Count count::file produces under it,    *)
(* to_counts_vec is as long as to_vec and its k-th value is the count of   *)
(* the metric the k-th header names, both in the order bytes, chars,       *)
(* words, lines; every row pprint renders lines up with the header row.    *)
(***************************************************************************)
Rank(name) ==
    CASE name = "bytes" -> 1 [] name = "chars" -> 2
      [] name = "words" -> 3 [] name = "lines" -> 4

OkOutcomes == {i \in 1..Len(outcomes) : outcomes[i].tag = "Ok"}

C17_RowsMatchHeaders ==
    LET h == to_vec(config)
    IN  /\ \A j, k \in 1..Len(h) : j < k => Rank(h[j]) < Rank(h[k])
        /\ {h[k] : k \in 1..Len(h)} =
              {f \in {"bytes", "chars", "words", "lines"} : config[f]}
        /\ \A i \in OkOutcomes :
              LET v == to_counts_vec(outcomes[i].val)
              IN  /\ Len(v) = Len(h)
                  /\ \A k \in 1..Len(h) : outcomes[i].val[h[k]] = Some(v[k])
        /\ pc = "done" =>
              /\ table[1] = <<"">> \o h
              /\ Len(table) = 1 + Cardinality(OkOutcomes)
              /\ \A r \in 2..Len(table) :
                    /\ Len(table[r]) = Len(table[1])
                    /\ \E i \in OkOutcomes :
                          /\ table[r][1] = paths[i]
                          /\ \A k \in 2..Len(table[r]) :
                                outcomes[i].val[table[1][k]] = Some(table[r][k])

C17_Witness ==
    /\ pc = "done"
    /\ paths = <<"not_utf8.txt", "a.txt">>
    /\ config = [bytes |-> TRUE, chars |-> TRUE, words |-> TRUE, lines |-> TRUE]
    /\ outcomes[1] = file_err
    /\ table = << <<"", "bytes", "chars", "words", "lines">>,
                  <<"a.txt", 5, 4, 2, 1>> >>

(***************************************************************************)
(* C14: when the read fails in the middle of a scan, the scan fails with   *)
(* the I/O error and returns no counts: neither the scanners nor           *)
(* Counter::count turn a read error into a successful result, so a failed  *)
(* scan never looks like a successful scan of an empty source.             *)
(***************************************************************************)
C14_ReadErrorFails ==
    pc = "done" /\ exit = "io" =>
        /\ result.tag = "Err"
        /\ \A c \in 1..MaxChunk :
              /\ result # returned(entry, config, "binary", binary(<<>>, c))
              /\ result # returned(entry, config, "hyperscreamingcount", <<0, 0>>)
              /\ result # returned(entry, config, "utf8", <<0, 0, 0, 0>>)

(***************************************************************************)
(* C18: a Counter made by countable() has all four flags false; each of    *)
(* bytes(), chars(), words(), lines() sets its own flag and leaves the     *)
(* other three flags and the source as they were, so after any sequence    *)
(* of builder calls the flags set are exactly those of the methods         *)
(* called, whatever their order and repetition.                            *)
(***************************************************************************)
C18_FlagsAreCallsMade ==
    [](pc = "build" =>
          \A f \in {"bytes", "chars", "words", "lines"} : config[f] <=> f \in built)
    /\ [][pc = "build" =>
            /\ src' = src
            /\ entry' = entry
            /\ \E f \in {"bytes", "chars", "words", "lines"} :
                  /\ config'[f]
                  /\ \A g \in {"bytes", "chars", "words", "lines"} \ {f} :
                        config'[g] = config[g]]_vars

C18_Witness ==
    /\ pc = "build"
    /\ entry = "PathBuf"
    /\ src = <<97, 10>>
    /\ built = {"chars", "lines"}
    /\ config = [bytes |-> FALSE, chars |-> TRUE, words |-> FALSE, lines |-> TRUE]

(***************************************************************************)
(* C19: for a path source with only bytes requested, the byte count        *)
(* Counter<PathBuf>::count takes from the metadata equals the byte count   *)
(* of a full scan of the same content, by count::binary and by             *)
(* count::file with only bytes set, whatever the sizes of the reads.       *)
(***************************************************************************)
OnlyBytes == [bytes |-> TRUE, chars |-> FALSE, words |-> FALSE, lines |-> FALSE]

C19_MetadataMatchesScan ==
    /\ Done("metadata") =>
          /\ config = OnlyBytes /\ entry = "PathBuf"
          /\ \A c \in 1..MaxApiChunk :
                /\ result.val.bytes = Some(binary(src, c)[1])
                /\ result.val = file(src, config, c).val
    /\ Done("binary_file") /\ config = OnlyBytes =>
          /\ only_bytes
          /\ result.val = metadata_counted(src).val

C19_Witness ==
    /\ Done("metadata")
    /\ src = <<97, 255, 10>>
    /\ result.val.bytes = Some(3)
    /\ file(src, OnlyBytes, cap) = file_ok(OnlyBytes, <<3, 0, 0, 0>>)

(***************************************************************************)
(* C20: for a file source with only bytes requested, count::file resolves  *)
(* the byte count from the length in the metadata and performs no fill or  *)
(* consume on the content of the file.                                     *)
(***************************************************************************)
C20_FileOnlyBytesNoRead ==
    entry = "file" /\ config = OnlyBytes /\ pc # "call" =>
        /\ path = "metadata"
        /\ pos = 0 /\ filled = 0

(***************************************************************************)
(* C21: the loops of binary, hyperscreamingcount and binary_file over a    *)
(* finite source terminate: an iteration with a non-empty fill is given    *)
(* the unread bytes that follow the consumed prefix and consumes exactly   *)
(* those, so every byte is seen once, none skipped and none twice, and     *)
(* the loop exits at the first empty fill, which is the end of the source. *)
(***************************************************************************)
FillLoops == {"binary", "hyperscreamingcount", "binary_file"}

C21_LoopsConsumeAndTerminate ==
    /\ [](path \in FillLoops =>
             /\ bytes = pos /\ pos <= Len(src)
             /\ (path = "binary_file" /\ only_bytes) \/ lines = Newlines(Prefix(src, pos))
             /\ pc = "done" => exit = "eof" /\ pos = Len(src))
    /\ [][pc = "scan" /\ path \in FillLoops /\ pc' = "scan" =>
             /\ pos' > pos
             /\ filled' = pos'
             /\ bytes' - bytes = pos' - pos]_vars
    /\ (pc = "scan" /\ path \in FillLoops) ~> (pc = "done")

C21_Witness ==
    /\ pc = "done" /\ path = "binary_file" /\ ~only_bytes
    /\ src = HelloWorld
    /\ exit = "eof"
    /\ pos = 23 /\ bytes = 23 /\ lines = 1

(***************************************************************************)
(* C22: after every chunk count::binary or count::utf8 processed, bytes    *)
(* is the number of source bytes consumed so far, no total decreased,      *)
(* lines <= bytes, words plus one when in a word is the number of          *)
(* non-whitespace runs started in the consumed prefix, and on the UTF-8    *)
(* path chars <= bytes <= 4 * chars.                                       *)
(***************************************************************************)
\* the bytes taken from the reader: those it consumed and those the decoder
\* marked for the next consume
Taken == pos + bytes_consumed

C22_RunningTotals ==
    /\ [](pc = "scan" /\ path \in {"binary", "utf8"} =>
             /\ bytes <= Len(src)
             /\ bytes = Taken - Len(incomplete)
             /\ path = "binary" => bytes = pos
             /\ lines <= bytes
             /\ lines = Newlines(Prefix(src, bytes))
             /\ words + (IF in_word THEN 1 ELSE 0) = WordRuns(Prefix(src, bytes))
             /\ path = "utf8" => chars <= bytes /\ bytes <= 4 * chars
             /\ path = "utf8" => chars = ScalarCount(Prefix(src, bytes)))
    /\ [][pc = "scan" /\ path \in {"binary", "utf8"} /\ pc' = "scan" =>
             /\ bytes' >= bytes /\ chars' >= chars
             /\ words' >= words /\ lines' >= lines
             /\ bytes' > bytes => incomplete' = <<>> /\ bytes' = Taken']_vars

C22_Witness ==
    /\ pc = "scan" /\ path = "utf8"
    /\ src = <<97, 195, 144, 10>>
    /\ bytes = 3 /\ chars = 2 /\ words = 0 /\ lines = 0 /\ in_word
    /\ Taken = 3

(***************************************************************************)
(* C23: for every file content and every flag combination, count::file     *)
(* and the Counter API on the path with the same flags report the same     *)
(* value for every requested metric whenever both succeed.                 *)
(***************************************************************************)
C23_EntryPointsAgree ==
    pc = "done" /\ entry = "PathBuf" /\ result.tag = "Counted" =>
        \A c \in 1..MaxApiChunk :
            file(src, config, c).tag = "Ok" =>
                \A f \in {"bytes", "chars", "words", "lines"} :
                    config[f] => result.val[f] = file(src, config, c).val[f]

====
